---- MODULE Spec2Model ----
(***************************************************************************)
(* Jittered fractional indexing (src/src/index.ts).                        *)
(*                                                                         *)
(* generateKeyBetween narrows the interval (a, b) once per jitter bit,     *)
(* asking the unjittered primitive of the package "fractional-indexing"    *)
(* for a key inside the current interval each time; generateNKeysBetween   *)
(* asks the unjittered batch primitive for n + 1 boundary keys and runs    *)
(* generateKeyBetween inside each of the n gaps.                           *)
(*                                                                         *)
(* Keys.  An order key of the package is an integer part followed by a     *)
(* fractional part, compared as a string.  A key is held here as a record  *)
(* [null, int, frac]: int is the value of the integer part ("a0" is 0,     *)
(* "a1" is 1, "Zz" is -1) and frac the fractional part as the sequence of  *)
(* the indices of its characters in the digit alphabet.  The length limits *)
(* of the integer part (62^26 keys away from "a0") are out of reach of the *)
(* bounds below and are left out.  null marks an absent bound.             *)
(*                                                                         *)
(* Numbers.  n and jitterBits are JavaScript numbers; a number is held as  *)
(* [v, frac], standing for v when frac is FALSE and for v + 0.5 otherwise, *)
(* so that the non-integer arguments of the tests (3.5, 3.7) exist.        *)
(***************************************************************************)
EXTENDS Integers, Sequences, FiniteSets, TLC

(* ------------------------------ bounds --------------------------------- *)
\* largest explicit jitterBits tried with a free random-bit source
MaxJitterBits == 2
\* largest n tried
MaxN == 2

(* ----------------------------- constants -------------------------------- *)
DEFAULT_JITTER_BITS == 30
\* length of BASE_62_DIGITS, the primitive's default alphabet
BASE_62 == 62
\* length of the alphabet "0123456789" of the tests
BASE_10 == 10

(* ------------------------------- keys ----------------------------------- *)
Key(i, f) == [null |-> FALSE, int |-> i, frac |-> f]
Null == [null |-> TRUE, int |-> 0, frac |-> <<>>]

\* lexicographic order of fractional parts; a proper prefix sorts first
RECURSIVE FracLess(_, _)
FracLess(f, g) ==
  IF g = <<>> THEN FALSE
  ELSE IF f = <<>> THEN TRUE
  ELSE IF Head(f) # Head(g) THEN Head(f) < Head(g)
  ELSE FracLess(Tail(f), Tail(g))

\* string comparison of two present keys
KeyLess(x, y) ==
  \/ x.int < y.int
  \/ x.int = y.int /\ FracLess(x.frac, y.frac)

(* ------------------ the unjittered primitive (external) ----------------- *)
\* index.ts only imports the two primitives; their bodies belong to the package
\* "fractional-indexing".  The operators below follow that package's algorithm
\* (midpoint of the fractional parts, increment / decrement of the integer
\* part, recursive halving for the batch).  What the jittering code relies on
\* is that the result is a function of (a, b, digits), lies strictly between
\* the bounds present, and that the call throws when a >= b.
\* midpoint(a, b, digits) of the package on fractional parts; bNull is
\* b == null, base is digits.length
RECURSIVE Midpoint(_, _, _, _)
Midpoint(fa, fb, bNull, base) ==
  LET digitA == IF fa = <<>> THEN 0 ELSE Head(fa)
      digitB == IF bNull THEN base ELSE Head(fb)
      restA  == IF fa = <<>> THEN <<>> ELSE Tail(fa)
  IN  IF ~bNull /\ fb # <<>> /\ digitA = Head(fb)
        THEN <<Head(fb)>> \o Midpoint(restA, Tail(fb), FALSE, base)
      ELSE IF digitB - digitA > 1
        THEN <<(digitA + digitB + 1) \div 2>>
      ELSE IF ~bNull /\ Len(fb) > 1
        THEN <<Head(fb)>>
      ELSE <<digitA>> \o Midpoint(restA, <<>>, TRUE, base)

\* the primitive throws when both bounds are present and a >= b
PrimitiveThrows(a, b) == ~a.null /\ ~b.null /\ ~KeyLess(a, b)

\* unjitteredGenerateKeyBetween(a, b, digits), defined when it does not throw
UnjitteredGenerateKeyBetween(a, b, digits) ==
  IF a.null /\ b.null THEN Key(0, <<>>)
  ELSE IF a.null THEN
    IF b.frac # <<>> THEN Key(b.int, <<>>) ELSE Key(b.int - 1, <<>>)
  ELSE IF b.null THEN Key(a.int + 1, <<>>)
  ELSE IF a.int = b.int THEN Key(a.int, Midpoint(a.frac, b.frac, FALSE, digits))
  ELSE IF KeyLess(Key(a.int + 1, <<>>), b) THEN Key(a.int + 1, <<>>)
  ELSE Key(a.int, Midpoint(a.frac, <<>>, TRUE, digits))

Reverse(s) == [k \in 1..Len(s) |-> s[Len(s) + 1 - k]]

\* c, then count - 1 more keys, each generated above the previous one
RECURSIVE ChainUp(_, _, _)
ChainUp(c, count, digits) ==
  IF count = 1 THEN <<c>>
  ELSE <<c>> \o ChainUp(UnjitteredGenerateKeyBetween(c, Null, digits), count - 1, digits)

\* c, then count - 1 more keys, each generated below the previous one
RECURSIVE ChainDown(_, _, _)
ChainDown(c, count, digits) ==
  IF count = 1 THEN <<c>>
  ELSE <<c>> \o ChainDown(UnjitteredGenerateKeyBetween(Null, c, digits), count - 1, digits)

\* unjitteredGenerateNKeysBetween(a, b, n, digits), defined when it does not throw
RECURSIVE UnjitteredGenerateNKeysBetween(_, _, _, _)
UnjitteredGenerateNKeysBetween(a, b, count, digits) ==
  LET c == UnjitteredGenerateKeyBetween(a, b, digits)
      mid == count \div 2
  IN  IF count = 0 THEN <<>>
      ELSE IF count = 1 THEN <<c>>
      ELSE IF b.null THEN ChainUp(c, count, digits)
      ELSE IF a.null THEN Reverse(ChainDown(c, count, digits))
      ELSE UnjitteredGenerateNKeysBetween(a, c, mid, digits)
           \o <<c>>
           \o UnjitteredGenerateNKeysBetween(c, b, count - mid - 1, digits)

(* ------------------------------ numbers --------------------------------- *)
Num(k) == [v |-> k, frac |-> FALSE]
Half(k) == [v |-> k, frac |-> TRUE]
\* Number.isInteger(x)
IsInteger(x) == ~x.frac
\* x < 0
IsNegative(x) == x.v < 0

(* ------------------------------ errors ---------------------------------- *)
NoError == [kind |-> "none", param |-> "", value |-> Num(0)]
\* whatever the unjittered primitive throws; it is passed on unchanged
PrimitiveError == [kind |-> "primitive", param |-> "", value |-> Num(0)]

\* assertIsPositiveInteger(paramName, n): the error thrown, or NoError
AssertIsPositiveInteger(paramName, x) ==
  IF ~IsInteger(x)
    THEN [kind |-> "must be an integer", param |-> paramName, value |-> x]
  ELSE IF IsNegative(x)
    THEN [kind |-> "must be greater than or equal to 0", param |-> paramName, value |-> x]
  ELSE NoError

(* ------------------------------ options --------------------------------- *)
\* opts.jitterBits left out
Omitted == [given |-> FALSE, v |-> 0, frac |-> FALSE]
Given(x) == [given |-> TRUE, v |-> x.v, frac |-> x.frac]

\* jitterBits = DEFAULT_JITTER_BITS of the destructuring in generateKeyBetween
JitterBitsOrDefault(jb) ==
  IF jb.given THEN [v |-> jb.v, frac |-> jb.frac] ELSE Num(DEFAULT_JITTER_BITS)

\* variant: the fallback to the batch primitive is never taken
IsExplicitZeroNever(jb) == FALSE

\* jitterBits === 0 in generateNKeysBetween, where no default is applied
IsExplicitZero(jb) == jb.given /\ ~jb.frac /\ jb.v = 0

\* opts.getRandomBit: left out, or one of the sources of the tests (the two
\* constant mocks and the alternating source)
DeterministicSources == {"constTrue", "constFalse", "alternating"}
GetRandomBitOptions == DeterministicSources \cup {"omitted"}

\* variant: opts.getRandomBit is never read, the default source is always drawn from
GetRandomBitIgnored(g) == "DEFAULT_GET_RANDOM_BIT"

\* getRandomBit = DEFAULT_GET_RANDOM_BIT of the destructuring: the source drawn from
GetRandomBitOrDefault(g) == IF g = "omitted" THEN "DEFAULT_GET_RANDOM_BIT" ELSE g

\* what the k-th call of a source (k = 1, 2, ...) in one call of the API may
\* return; Math.random() < 0.5 may be either value
SourceBits(source, k) ==
  CASE source = "constTrue" -> {TRUE}
    [] source = "constFalse" -> {FALSE}
    [] source = "alternating" -> {k % 2 = 0}
    [] OTHER -> BOOLEAN

(* ---------------------- pieces of generateKeyBetween -------------------- *)
\* variant: while (remainingJitterBits >= 0)
LoopContinuesOnZero(remaining) == remaining >= 0

\* while (remainingJitterBits > 0)
LoopContinues(remaining) == remaining > 0

\* variant: the two branches are exchanged
NarrowSwapped(randomBit, lo, hi, mid) ==
  IF randomBit = 1 THEN [low |-> lo, high |-> mid]
  ELSE [low |-> mid, high |-> hi]

\* variant: the first branch drops the upper bound
NarrowUnbounded(randomBit, lo, hi, mid) ==
  IF randomBit = 1 THEN [low |-> mid, high |-> Null]
  ELSE [low |-> lo, high |-> mid]

\* variant: the else branch reads high = low
NarrowTypo(randomBit, lo, hi, mid) ==
  IF randomBit = 1 THEN [low |-> mid, high |-> hi]
  ELSE [low |-> lo, high |-> lo]

\* the if / else on randomBit: the interval after one round
Narrow(randomBit, lo, hi, mid) ==
  IF randomBit = 1 THEN [low |-> mid, high |-> hi]
  ELSE [low |-> lo, high |-> mid]

(* --------------------- pieces of generateNKeysBetween ------------------- *)
\* variant: n boundary keys are asked for
BoundaryCountShort(n) == n

\* the number of boundary keys asked of the batch primitive
BoundaryCount(n) == n + 1

\* keys[k] of a JavaScript array (k from 0); undefined counts as an absent bound
KeyAt(ks, k) == IF k + 1 \in 1..Len(ks) THEN ks[k + 1] ELSE Null

\* variant: every gap ends at the last boundary key
GapBoundsToLast(ks, gap) == [currentKey |-> KeyAt(ks, gap), nextKey |-> KeyAt(ks, Len(ks) - 1)]

\* currentKey and nextKey of gap i
GapBounds(ks, gap) == [currentKey |-> KeyAt(ks, gap), nextKey |-> KeyAt(ks, gap + 1)]

(* ------------------------------- state ---------------------------------- *)
VARIABLES
  args,                 \* the arguments of the call: op, a, b, n, digits, jitterBits, getRandomBit
  call,                 \* 1 for the first call, 2 for its repetition with the same arguments
  first,                \* what the first call did, kept for the repetition
  pc,                   \* "start", "while" (generateKeyBetween's loop), "for" (the loop over gaps), "done"
  low, high, midpoint,  \* locals of generateKeyBetween
  remainingJitterBits,
  keys, i, jitteredKeys, \* locals of generateNKeysBetween
  outcome,              \* status ("running", "ok", "err"), returned keys, error thrown
  tape,                 \* the bits the random-bit source returned in this call, with the gap each was drawn in
  calls,                \* the calls of the unjittered primitives in this call, in order
  engineCalls           \* the number of calls of the jittered generateKeyBetween in this call

vars == <<args, call, first, pc, low, high, midpoint, remainingJitterBits,
          keys, i, jitteredKeys, outcome, tape, calls, engineCalls>>

locals == <<low, high, midpoint, remainingJitterBits, keys, i, jitteredKeys>>

CallerKeys == {Key(0, <<>>), Key(0, <<5>>), Key(1, <<>>), Key(2, <<>>)}
Bounds == CallerKeys \cup {Null}
Digits == {BASE_62, BASE_10}
NValues == {Num(-1), Half(3)} \cup {Num(k) : k \in 0..MaxN}
JitterBitsValues ==
  {Omitted, Given(Num(-1)), Given(Half(3))} \cup {Given(Num(k)) : k \in 0..MaxJitterBits}

\* the number of rounds a call with these arguments will run per key
Rounds(jb) == JitterBitsOrDefault(jb).v

Running == [status |-> "running", ret |-> <<>>, err |-> NoError]
Blank == [outcome |-> Running, tape |-> <<>>, calls |-> <<>>, engineCalls |-> 0]

KeyCall(x, y, d) == [fn |-> "generateKeyBetween", a |-> x, b |-> y, n |-> 0, digits |-> d]
BatchCall(x, y, count, d) == [fn |-> "generateNKeysBetween", a |-> x, b |-> y, n |-> count, digits |-> d]

\* The default of 30 rounds is run with the deterministic sources only: a free
\* source would give 2^30 runs per key.
Init ==
  /\ args \in [op : {"generateKeyBetween", "generateNKeysBetween"},
               a : Bounds, b : Bounds, n : NValues, digits : Digits,
               jitterBits : JitterBitsValues, getRandomBit : GetRandomBitOptions]
  /\ args.op = "generateKeyBetween" => args.n = Num(0)
  /\ (args.getRandomBit = "omitted" /\ ~args.jitterBits.frac)
       => Rounds(args.jitterBits) <= MaxJitterBits
  /\ call = 1
  /\ first = Blank
  /\ pc = "start"
  /\ low = Null /\ high = Null /\ midpoint = Null
  /\ remainingJitterBits = 0
  /\ keys = <<>> /\ i = 0 /\ jitteredKeys = <<>>
  /\ outcome = Running
  /\ tape = <<>>
  /\ calls = <<>>
  /\ engineCalls = 0

(* ------------------------------ actions --------------------------------- *)
\* an exception leaves the call: nothing is returned
Throw(e) ==
  /\ pc' = "done"
  /\ outcome' = [status |-> "err", ret |-> <<>>, err |-> e]

Return(ks) ==
  /\ pc' = "done"
  /\ outcome' = [status |-> "ok", ret |-> ks, err |-> NoError]

\* generateKeyBetween(x, y, opts) up to its loop: the destructuring, the
\* validation of jitterBits and the first midpoint
Enter(x, y) ==
  LET jitterBits == JitterBitsOrDefault(args.jitterBits)
      e == AssertIsPositiveInteger("jitterBits", jitterBits)
  IN  /\ engineCalls' = engineCalls + 1
      /\ UNCHANGED <<args, call, first, keys, i, jitteredKeys, tape>>
      /\ IF e # NoError
           THEN /\ Throw(e)
                /\ UNCHANGED <<low, high, midpoint, remainingJitterBits, calls>>
         ELSE /\ remainingJitterBits' = jitterBits.v
              /\ low' = x
              /\ high' = y
              /\ calls' = Append(calls, KeyCall(x, y, args.digits))
              /\ IF PrimitiveThrows(x, y)
                   THEN Throw(PrimitiveError) /\ UNCHANGED midpoint
                 ELSE /\ midpoint' = UnjitteredGenerateKeyBetween(x, y, args.digits)
                      /\ pc' = "while"
                      /\ UNCHANGED outcome

\* a call of generateKeyBetween by the caller
CallGenerateKeyBetween ==
  /\ pc = "start"
  /\ args.op = "generateKeyBetween"
  /\ Enter(args.a, args.b)

\* one round of the loop of generateKeyBetween
WhileBody ==
  /\ pc = "while"
  /\ LoopContinues(remainingJitterBits)
  /\ \E r \in SourceBits(GetRandomBitOrDefault(args.getRandomBit), Len(tape) + 1) :
       LET randomBit == IF r THEN 1 ELSE 0
           narrowed == Narrow(randomBit, low, high, midpoint)
       IN  /\ tape' = Append(tape, [bit |-> r, gap |-> i])
           /\ low' = narrowed.low
           /\ high' = narrowed.high
           /\ calls' = Append(calls, KeyCall(narrowed.low, narrowed.high, args.digits))
           /\ IF PrimitiveThrows(narrowed.low, narrowed.high)
                THEN Throw(PrimitiveError) /\ UNCHANGED <<midpoint, remainingJitterBits>>
              ELSE /\ midpoint' = UnjitteredGenerateKeyBetween(narrowed.low, narrowed.high, args.digits)
                   /\ remainingJitterBits' = remainingJitterBits - 1
                   /\ UNCHANGED <<pc, outcome>>
  /\ UNCHANGED <<args, call, first, keys, i, jitteredKeys, engineCalls>>

\* return midpoint, to the caller
ReturnKey ==
  /\ pc = "while"
  /\ ~LoopContinues(remainingJitterBits)
  /\ args.op = "generateKeyBetween"
  /\ Return(<<midpoint>>)
  /\ UNCHANGED <<args, call, first, locals, tape, calls, engineCalls>>

\* generateNKeysBetween up to its loop: the validation of n, the two early
\* returns and the boundary keys
CallGenerateNKeysBetween ==
  /\ pc = "start"
  /\ args.op = "generateNKeysBetween"
  /\ LET e == AssertIsPositiveInteger("n", args.n)
         count == IF IsExplicitZero(args.jitterBits) THEN args.n.v ELSE BoundaryCount(args.n.v)
     IN  IF e # NoError
           THEN Throw(e) /\ UNCHANGED <<keys, calls>>
         ELSE IF args.n.v = 0
           THEN Return(<<>>) /\ UNCHANGED <<keys, calls>>
         ELSE /\ calls' = Append(calls, BatchCall(args.a, args.b, count, args.digits))
              /\ IF PrimitiveThrows(args.a, args.b)
                   THEN Throw(PrimitiveError) /\ UNCHANGED keys
                 ELSE IF IsExplicitZero(args.jitterBits)
                   THEN /\ Return(UnjitteredGenerateNKeysBetween(args.a, args.b, count, args.digits))
                        /\ UNCHANGED keys
                 ELSE /\ keys' = UnjitteredGenerateNKeysBetween(args.a, args.b, count, args.digits)
                      /\ pc' = "for"
                      /\ UNCHANGED outcome
  /\ UNCHANGED <<args, call, first, low, high, midpoint, remainingJitterBits,
                 i, jitteredKeys, tape, engineCalls>>

\* the body of the loop over the gaps: generateKeyBetween(currentKey, nextKey, opts)
ForBody ==
  /\ pc = "for"
  /\ i < args.n.v
  /\ LET gap == GapBounds(keys, i)
     IN  Enter(gap.currentKey, gap.nextKey)

\* return midpoint, to generateNKeysBetween: jitteredKeys.push and i++
PushKey ==
  /\ pc = "while"
  /\ ~LoopContinues(remainingJitterBits)
  /\ args.op = "generateNKeysBetween"
  /\ jitteredKeys' = Append(jitteredKeys, midpoint)
  /\ i' = i + 1
  /\ pc' = "for"
  /\ UNCHANGED <<args, call, first, low, high, midpoint, remainingJitterBits,
                 keys, outcome, tape, calls, engineCalls>>

\* return jitteredKeys
ReturnKeys ==
  /\ pc = "for"
  /\ ~(i < args.n.v)
  /\ Return(jitteredKeys)
  /\ UNCHANGED <<args, call, first, locals, tape, calls, engineCalls>>

\* The caller repeats the call with the same arguments and a source started
\* afresh.  Batch calls with the default source are not repeated (the runs of
\* two such calls multiply).
Repeats == args.op = "generateKeyBetween" \/ args.getRandomBit # "omitted"

Repeat ==
  /\ pc = "done"
  /\ call = 1
  /\ Repeats
  /\ first' = [outcome |-> outcome, tape |-> tape, calls |-> calls, engineCalls |-> engineCalls]
  /\ call' = 2
  /\ pc' = "start"
  /\ low' = Null /\ high' = Null /\ midpoint' = Null
  /\ remainingJitterBits' = 0
  /\ keys' = <<>> /\ i' = 0 /\ jitteredKeys' = <<>>
  /\ outcome' = Running
  /\ tape' = <<>>
  /\ calls' = <<>>
  /\ engineCalls' = 0
  /\ UNCHANGED args

Next ==
  \/ CallGenerateKeyBetween
  \/ WhileBody
  \/ ReturnKey
  \/ CallGenerateNKeysBetween
  \/ ForBody
  \/ PushKey
  \/ ReturnKeys
  \/ Repeat

Spec == Init /\ [][Next]_vars

(* ----------------------------- properties ------------------------------- *)
IsKeyCall == args.op = "generateKeyBetween"
IsBatchCall == args.op = "generateNKeysBetween"
Done == pc = "done"
Succeeded == Done /\ outcome.status = "ok"
Failed == Done /\ outcome.status = "err"
BothPresent == ~args.a.null /\ ~args.b.null
Bits(t) == [k \in 1..Len(t) |-> t[k].bit]
\* the number of rounds the arguments ask for: jitterBits, or 30 when left out
AskedBits == IF args.jitterBits.given THEN args.jitterBits.v ELSE 30
ValidJitterBits == ~args.jitterBits.frac /\ AskedBits >= 0
ValidN == ~args.n.frac /\ args.n.v >= 0
ExplicitZero == args.jitterBits = Given(Num(0))

\* the fold of the narrowing over a bit sequence, starting from the midpoint
\* of (lo, hi): true raises the lower bound, false lowers the upper bound
RECURSIVE Fold(_, _, _, _)
Fold(lo, hi, bits, d) ==
  LET m == UnjitteredGenerateKeyBetween(lo, hi, d)
  IN  IF bits = <<>> THEN m
      ELSE IF Head(bits) THEN Fold(m, hi, Tail(bits), d)
      ELSE Fold(lo, m, Tail(bits), d)

\* C1: a successful generateKeyBetween with both bounds present returns a key
\* strictly greater than the lower bound and strictly less than the upper bound,
\* whatever jitterBits and whatever bits were drawn.
C1_KeyStrictlyBetween ==
  (IsKeyCall /\ Succeeded /\ BothPresent)
    => /\ Len(outcome.ret) = 1
       /\ KeyLess(args.a, outcome.ret[1])
       /\ KeyLess(outcome.ret[1], args.b)

C1_Witness ==
  /\ IsKeyCall /\ Succeeded /\ BothPresent
  /\ Len(tape) >= 2
  /\ \E j, k \in 1..Len(tape) : tape[j].bit /\ ~tape[k].bit

\* C2: a successful generateNKeysBetween with both bounds present returns
\* exactly n keys, strictly increasing, each strictly between the bounds.
C2_BatchOrdered ==
  (IsBatchCall /\ Succeeded /\ BothPresent)
    => /\ Len(outcome.ret) = args.n.v
       /\ \A k \in 1..(Len(outcome.ret) - 1) : KeyLess(outcome.ret[k], outcome.ret[k + 1])
       /\ \A k \in 1..Len(outcome.ret) :
            KeyLess(args.a, outcome.ret[k]) /\ KeyLess(outcome.ret[k], args.b)

C2_Witness ==
  /\ IsBatchCall /\ Succeeded /\ BothPresent
  /\ args.n.v >= 2
  /\ Len(tape) >= 2 * args.n.v
  /\ \E j, k \in 1..Len(tape) : tape[j].bit /\ ~tape[k].bit

\* C3: a call with a negative or non-integer jitterBits, or a batch call with a
\* negative or non-integer n, fails with the error of the validator naming the
\* parameter and its value, before any primitive is called or any bit is drawn.
C3_InvalidArgumentFirst ==
  (Done /\ (~ValidJitterBits \/ (IsBatchCall /\ ~ValidN)))
    => /\ outcome.status = "err"
       /\ outcome.err.kind \in {"must be an integer", "must be greater than or equal to 0"}
       /\ \/ outcome.err.param = "n" /\ outcome.err.value = args.n /\ IsBatchCall /\ ~ValidN
          \/ /\ outcome.err.param = "jitterBits"
             /\ outcome.err.value = [v |-> args.jitterBits.v, frac |-> args.jitterBits.frac]
             /\ ~ValidJitterBits
       /\ calls = <<>>
       /\ tape = <<>>

\* C4: a successful generateKeyBetween draws exactly jitterBits bits and a
\* successful generateNKeysBetween exactly n * jitterBits bits (30 for
\* jitterBits when it is left out).
C4_EntropyAccounting ==
  Succeeded =>
    Len(tape) = IF IsKeyCall THEN AskedBits ELSE args.n.v * AskedBits

C4_Witness ==
  /\ IsBatchCall /\ Succeeded
  /\ args.n.v = 2
  /\ ~args.jitterBits.given
  /\ Len(tape) = 60

\* C5: in every round a drawn true moves the lower bound to the midpoint and
\* keeps the upper bound, a drawn false moves the upper bound to the midpoint
\* and keeps the lower bound, and the midpoint is recomputed on the new
\* interval; the key returned is the fold of this rule over the drawn bits.
C5_Round ==
  Len(tape') = Len(tape) + 1 =>
    LET r == tape'[Len(tape')].bit
    IN  /\ r => (low' = midpoint /\ high' = high)
        /\ ~r => (high' = midpoint /\ low' = low)
        /\ midpoint' = UnjitteredGenerateKeyBetween(low', high', args.digits)

C5_BitDirection ==
  /\ [][C5_Round]_vars
  /\ []((IsKeyCall /\ Succeeded)
          => outcome.ret = <<Fold(args.a, args.b, Bits(tape), args.digits)>>)

C5_Witness ==
  /\ IsKeyCall /\ Succeeded
  /\ Len(tape) >= 2
  /\ tape[1].bit /\ ~tape[2].bit

\* C6: with jitterBits explicitly 0 and n >= 1 the batch call is one call of
\* the batch primitive for n keys, whose result it returns; the single-key
\* engine is not called and no bit is drawn.
C6_PassThrough ==
  (IsBatchCall /\ Done /\ ExplicitZero /\ ValidN /\ args.n.v >= 1)
    => /\ calls = <<BatchCall(args.a, args.b, args.n.v, args.digits)>>
       /\ engineCalls = 0
       /\ tape = <<>>
       /\ (outcome.status = "ok") = ~PrimitiveThrows(args.a, args.b)
       /\ outcome.status = "ok"
            => outcome.ret = UnjitteredGenerateNKeysBetween(args.a, args.b, args.n.v, args.digits)

C6_Witness ==
  /\ IsBatchCall /\ Succeeded /\ ExplicitZero
  /\ args.n.v = 2
  /\ Len(outcome.ret) = 2

\* C7: two calls with the same arguments whose sources return the same bits
\* (a deterministic source started afresh, or equal drawn sequences) end the
\* same way: the same keys, or the same error.
C7_Deterministic ==
  (call = 2 /\ Done
     /\ (args.getRandomBit \in DeterministicSources \/ Bits(first.tape) = Bits(tape)))
    => outcome = first.outcome

C7_Witness ==
  /\ call = 2 /\ Succeeded
  /\ args.getRandomBit = "alternating"
  /\ Len(tape) >= 2
  /\ outcome.ret # <<>>

\* C8: a call that has failed has drawn no bit and returns no keys.
C8_FailureBeforeEntropy ==
  Failed => (tape = <<>> /\ outcome.ret = <<>>)

C8_Witness ==
  /\ IsBatchCall /\ Failed
  /\ outcome.err.param = "jitterBits"
  /\ calls # <<>>
  /\ AskedBits < 0

\* C9: in the jittered path of a batch call the batch primitive is called once,
\* first, for n + 1 keys; the j-th draw (from 0) is made in gap j div b; and key
\* i returned is the fold over draws i*b .. (i+1)*b - 1 on boundary keys i and
\* i + 1.
C9_GapByGap ==
  (IsBatchCall /\ ValidN /\ args.n.v >= 1 /\ ValidJitterBits /\ ~ExplicitZero)
    => LET b == AskedBits
           boundary == UnjitteredGenerateNKeysBetween(args.a, args.b, args.n.v + 1, args.digits)
       IN  /\ pc # "start" => /\ calls # <<>>
                              /\ calls[1] = BatchCall(args.a, args.b, args.n.v + 1, args.digits)
           /\ \A k \in 2..Len(calls) : calls[k].fn = "generateKeyBetween"
           /\ \A j \in 1..Len(tape) : tape[j].gap = (j - 1) \div b
           /\ Succeeded =>
                /\ Len(outcome.ret) = args.n.v
                /\ \A g \in 0..(args.n.v - 1) :
                     outcome.ret[g + 1] =
                       Fold(boundary[g + 1], boundary[g + 2],
                            SubSeq(Bits(tape), g * b + 1, (g + 1) * b), args.digits)

C9_Witness ==
  /\ IsBatchCall /\ Succeeded
  /\ args.n.v = 2
  /\ Len(tape) = 4
  /\ tape[1].bit /\ ~tape[2].bit /\ ~tape[3].bit /\ tape[4].bit

\* C10: two successful generateKeyBetween calls with the same arguments and
\* different drawn sequences return different keys, and the call that drew true
\* at the first position where the sequences differ returns the greater key.
C10_OrderOfBitSequences ==
  (IsKeyCall /\ call = 2 /\ Succeeded /\ first.outcome.status = "ok"
     /\ Len(tape) = Len(first.tape) /\ Bits(tape) # Bits(first.tape))
    => LET p == CHOOSE p \in 1..Len(tape) :
                  /\ tape[p].bit # first.tape[p].bit
                  /\ \A q \in 1..(p - 1) : tape[q].bit = first.tape[q].bit
       IN  IF tape[p].bit
             THEN KeyLess(first.outcome.ret[1], outcome.ret[1])
           ELSE KeyLess(outcome.ret[1], first.outcome.ret[1])

C10_Witness ==
  /\ IsKeyCall /\ call = 2 /\ Succeeded /\ first.outcome.status = "ok"
  /\ Len(tape) = 2 /\ Len(first.tape) = 2
  /\ tape[1].bit = first.tape[1].bit
  /\ tape[2].bit /\ ~first.tape[2].bit

====
